---- MODULE Spec2Model ----
(***************************************************************************)
(* The submission controller of the repository: the React hook             *)
(* useFormSubmission (hooks/useFormSubmission.js), its attempt/retry loop, *)
(* its single-flight guard inFlightRef and reset().                        *)
(*                                                                         *)
(* JavaScript runs every synchronous stretch of code to completion, so     *)
(* each action below is one such stretch: from a call (or from the         *)
(* resumption after an await) up to the next await or to the return.  The  *)
(* hook's useState cells are modelled by the value their setter was last   *)
(* called with.                                                            *)
(***************************************************************************)
EXTENDS Integers, Sequences, FiniteSets, TLC

\* Largest maxRetries option explored, and the number of submit() calls that
\* can be suspended in their async body at the same time.
\* And the number of idempotency keys the form draws.
MaxRetriesBound == 2
MaxCalls == 2
MaxKeys == 3

Calls == 1..MaxCalls

VARIABLES
    maxRetries,   \* options.maxRetries, fixed at construction
    inFlightRef,  \* inFlightRef.current
    status,       \* useState: status
    retryCount,   \* useState: retryCount
    error,        \* useState: error
    result,       \* useState: result
    pc,           \* per submit() call: where its async body is suspended
    attempt,      \* per submit() call: the loop variable `attempt`
    settled,      \* the promise of the submit() call that settled last
    invoked,      \* submitForm invocations since the last accepted submit()
    log,          \* how those invocations ended, in order
    event,        \* the operation that produced the current state
    payload,      \* per submit() call: its argument
    sent,         \* per submitForm invocation since the last accepted
                  \* submit(): its argument and the state it was made in
    seen,         \* the status and retryCount that could be observed, one
                  \* after the other, since the last accepted submit()
    sleeps,       \* sleep() calls since the last accepted submit()
    usedKeys,     \* the idempotency keys of the accepted submit() calls
    email,        \* TransactionForm, useState: email
    amount,       \* TransactionForm, useState: amount
    keys,         \* idempotency keys drawn by the form so far
    retryAttempt, \* mockApi: the module counter retryAttempt
    promise,      \* mockApi, per submit() call: how the promise that
                  \* submitForm handed back settles
    verdict       \* the last isRetryable(err) call on its own: err and
                  \* what it returned

hookVars == <<inFlightRef, status, retryCount, error, result,
              pc, attempt, settled, invoked, log, payload, sent, seen,
              sleeps, usedKeys>>
formVars == <<email, amount, keys>>
mockVars == <<retryAttempt, promise>>
vars == <<maxRetries, hookVars, event, formVars, mockVars, verdict>>

-----------------------------------------------------------------------------
(* SubmissionStatus *)
IDLE == "IDLE"
PENDING == "PENDING"
RETRYING == "RETRYING"
SUCCESS == "SUCCESS"
ERROR == "ERROR"
SubmissionStatus == {IDLE, PENDING, RETRYING, SUCCESS, ERROR}

-----------------------------------------------------------------------------
(* JavaScript values that reach the hook.  status is the set holding the   *)
(* value of the object's status property, empty when it has none.          *)
Value(type, st, tag) == [type |-> type, status |-> st, tag |-> tag]

NULL == Value("null", {}, "null")
UNDEFINED == Value("undefined", {}, "undefined")

\* what submitForm can reject with or throw
Unavailable == {Value("object", {503}, t) : t \in {"e1", "e2"}}
OtherErrors == {Value("object", {400}, "bad request"),
                Value("object", {}, "no status"),
                Value("string", {}, "text"),
                UNDEFINED}
ErrorValues == Unavailable \cup OtherErrors

\* what submitForm can resolve with
ResultValues == {Value("object", {}, "r1"), Value("object", {}, "r2"), UNDEFINED}

Truthy(v) == v.type \notin {"null", "undefined"}
TypeOf(v) == IF v.type = "null" THEN "object" ELSE v.type

\* any status counts: `err.status` in place of `err.status === 503`
isRetryableAnyStatus(err) ==
    Truthy(err) /\ TypeOf(err) = "object" /\ err.status # {}

\* lines 16-18
isRetryable(err) == Truthy(err) /\ TypeOf(err) = "object" /\ err.status = {503}

-----------------------------------------------------------------------------
(* The promise returned by a submit() call: pending while the call is      *)
(* suspended, then fulfilled or rejected.                                  *)
NoPromise == [state |-> "none", value |-> UNDEFINED]
PendingPromise == [state |-> "pending", value |-> UNDEFINED]
Fulfilled(v) == [state |-> "fulfilled", value |-> v]
Rejected(e) == [state |-> "rejected", value |-> e]

(* The argument of submit(): the object handleSubmit builds. *)
NoPayload == [email |-> "", amount |-> 0, idempotencyKey |-> 0]
Payloads ==
    {[email |-> "user@example.com", amount |-> 10, idempotencyKey |-> k] :
        k \in 1..2}

(* What a call of submitForm does before it returns: it hands back a       *)
(* promise, or it throws.  And how a promise it handed back settles.       *)
Returns == {[kind |-> "promise", value |-> UNDEFINED]}
Throws == {[kind |-> "throw", value |-> e] : e \in ErrorValues}
Settlements == {[kind |-> "resolve", value |-> r] : r \in ResultValues}
                 \cup {[kind |-> "reject", value |-> e] : e \in ErrorValues}
\* no promise of the mock endpoint is outstanding
NoSettlement == [kind |-> "none", value |-> UNDEFINED]
\* isRetryable has not been called on its own
NoVerdict == [err |-> UNDEFINED, retryable |-> FALSE, called |-> FALSE]

-----------------------------------------------------------------------------
(* The body of submit().  A frame is what one run of the body reads and    *)
(* writes: the hook's cells, the guard and the call's own locals.          *)
Frame(c) ==
    [inFlight |-> inFlightRef, status |-> status, retryCount |-> retryCount,
     error |-> error, result |-> result,
     pc |-> pc[c], attempt |-> attempt[c], ret |-> PendingPromise,
     invoked |-> invoked, log |-> log,
     payload |-> payload[c], sent |-> sent, seen |-> seen,
     sleeps |-> sleeps, usedKeys |-> usedKeys]

\* what an observer reads of the status and retryCount cells
Observation(f) == [status |-> f.status, retryCount |-> f.retryCount]

\* the points at which other code runs and can read the cells: the call of
\* submitForm (line 50) and the end of a synchronous stretch (an await or
\* the return); an observation equal to the last one is not recorded again
Observe(f) ==
    IF f.seen = <<>> \/ f.seen[Len(f.seen)] # Observation(f)
    THEN [f EXCEPT !.seen = Append(f.seen, Observation(f))]
    ELSE f

\* a submitForm invocation: its argument and the state at the call
Invocation(f) ==
    [payload |-> f.payload, status |-> f.status,
     retryCount |-> f.retryCount, error |-> f.error, result |-> f.result,
     inFlight |-> f.inFlight, sleeps |-> f.sleeps]

Commit(c, f) ==
    /\ inFlightRef' = f.inFlight
    /\ status' = f.status
    /\ retryCount' = f.retryCount
    /\ error' = f.error
    /\ result' = f.result
    /\ pc' = [pc EXCEPT ![c] = f.pc]
    /\ attempt' = [attempt EXCEPT ![c] = f.attempt]
    /\ settled' = IF f.ret = PendingPromise THEN settled ELSE f.ret
    /\ invoked' = f.invoked
    /\ log' = f.log
    /\ payload' = [payload EXCEPT ![c] = f.payload]
    /\ sent' = f.sent
    /\ seen' = Observe(f).seen
    /\ sleeps' = f.sleeps
    /\ usedKeys' = f.usedKeys

\* the guard test left out
isInFlightNever == FALSE

\* line 32: the guard test
isInFlight == inFlightRef

\* no finally: the guard is not released
FinallyKeepsGuard(f, p) ==
    [f EXCEPT !.pc = "done", !.attempt = 0, !.ret = p,
              !.payload = NoPayload]

\* lines 63-65: finally, then the async function's promise settles with p
Finally(f, p) ==
    [f EXCEPT !.inFlight = FALSE, !.pc = "done", !.attempt = 0, !.ret = p,
              !.payload = NoPayload]

\* a sleep() whose promise is never resolved
RetryNeverWakes(f) ==
    [f EXCEPT !.status = RETRYING, !.retryCount = f.attempt, !.pc = "never",
              !.sleeps = f.sleeps + 1]

\* setStatus(PENDING) in place of setStatus(RETRYING)
RetrySetsPending(f) ==
    [f EXCEPT !.status = PENDING, !.retryCount = f.attempt, !.pc = "sleep",
              !.sleeps = f.sleeps + 1]

\* setRetryCount(attempt - 1)
RetryCountOffByOne(f) ==
    [f EXCEPT !.status = RETRYING, !.retryCount = f.attempt - 1,
              !.pc = "sleep", !.sleeps = f.sleeps + 1]

\* setRetryCount(attempt) left out
RetryNoCount(f) ==
    [f EXCEPT !.status = RETRYING, !.pc = "sleep", !.sleeps = f.sleeps + 1]

\* lines 44-47: the branch attempt > 0, up to the await of sleep()
Retry(f) ==
    [f EXCEPT !.status = RETRYING, !.retryCount = f.attempt, !.pc = "sleep",
              !.sleeps = f.sleeps + 1]

\* `attempt <= maxRetries` in the condition of `continue`
CanRetryInclusive(err, a) == isRetryable(err) /\ a <= maxRetries

\* the classification left out: every failure is retried while attempts remain
CanRetryAny(err, a) == a < maxRetries

\* line 55: the condition of `continue`
CanRetry(err, a) == isRetryable(err) /\ a < maxRetries

\* `attempt < maxRetries` as the loop condition
LoopCondStrict(a) == a < maxRetries

\* line 42: the loop condition
LoopCond(a) == a <= maxRetries

\* a catch block that retries every retryable failure, whatever the attempt
CatchNoBudget(f, err) ==
    IF isRetryable(err)
    THEN Retry([f EXCEPT !.attempt = f.attempt + 1])
    ELSE Finally([f EXCEPT !.error = err, !.status = ERROR], Rejected(err))

\* setError(err) left out
CatchNoSetError(f, err) ==
    IF CanRetry(err, f.attempt)
    THEN LET g == [f EXCEPT !.attempt = f.attempt + 1]
         IN  IF LoopCond(g.attempt)
             THEN Retry(g)
             ELSE Finally(g, Fulfilled(UNDEFINED))
    ELSE Finally([f EXCEPT !.status = ERROR], Rejected(err))

\* setError(err) called before the retry decision, for every failure
CatchRecordsEveryError(f, err) ==
    IF CanRetry(err, f.attempt)
    THEN LET g == [f EXCEPT !.attempt = f.attempt + 1, !.error = err]
         IN  IF LoopCond(g.attempt)
             THEN Retry(g)
             ELSE Finally(g, Fulfilled(UNDEFINED))
    ELSE Finally([f EXCEPT !.error = err, !.status = ERROR], Rejected(err))

\* lines 54-61: the catch block; `continue` runs attempt += 1, the loop
\* condition and, attempt being positive then, the retry branch
Catch(f, err) ==
    IF CanRetry(err, f.attempt)
    THEN LET g == [f EXCEPT !.attempt = f.attempt + 1]
         IN  IF LoopCond(g.attempt)
             THEN Retry(g)
             ELSE Finally(g, Fulfilled(UNDEFINED))
    ELSE Finally([f EXCEPT !.error = err, !.status = ERROR], Rejected(err))

\* setResult(response) left out
ResolveNoResult(f, response) ==
    Finally([f EXCEPT !.status = SUCCESS], Fulfilled(response))

\* lines 51-53: submitForm's promise resolved with response
Resolve(f, response) ==
    Finally([f EXCEPT !.result = response, !.status = SUCCESS],
            Fulfilled(response))

\* line 50: submitForm(payload) is called; o is what the call does
CallSubmitForm(f, o) ==
    LET g == [Observe(f) EXCEPT !.invoked = f.invoked + 1,
                                !.sent = Append(f.sent, Invocation(f))]
    IN  IF o.kind = "throw"
        THEN Catch([g EXCEPT !.log = Append(g.log, o)], o.value)
        ELSE [g EXCEPT !.pc = "awaitSubmit"]

\* setRetryCount(0) left out
AcceptKeepsCount(f) ==
    [f EXCEPT !.inFlight = TRUE, !.error = NULL, !.result = NULL,
              !.status = PENDING,
              !.attempt = 0, !.ret = PendingPromise,
              !.invoked = 0, !.log = <<>>, !.sent = <<>>, !.sleeps = 0,
              !.seen = <<>>,
              !.usedKeys = f.usedKeys \cup {f.payload.idempotencyKey}]

\* setStatus(PENDING) left out
AcceptNoPending(f) ==
    [f EXCEPT !.inFlight = TRUE, !.error = NULL, !.result = NULL,
              !.retryCount = 0,
              !.attempt = 0, !.ret = PendingPromise,
              !.invoked = 0, !.log = <<>>, !.sent = <<>>, !.sleeps = 0,
              !.seen = <<>>,
              !.usedKeys = f.usedKeys \cup {f.payload.idempotencyKey}]

\* setError(null) and setResult(null) left out
AcceptNoClear(f) ==
    [f EXCEPT !.inFlight = TRUE,
              !.retryCount = 0, !.status = PENDING,
              !.attempt = 0, !.ret = PendingPromise,
              !.invoked = 0, !.log = <<>>, !.sent = <<>>, !.sleeps = 0,
              !.seen = <<>>,
              !.usedKeys = f.usedKeys \cup {f.payload.idempotencyKey}]

\* lines 34-38: the call is accepted
Accept(f) ==
    [f EXCEPT !.inFlight = TRUE, !.error = NULL, !.result = NULL,
              !.retryCount = 0, !.status = PENDING,
              !.attempt = 0, !.ret = PendingPromise,
              !.invoked = 0, !.log = <<>>, !.sent = <<>>, !.sleeps = 0,
              !.seen = <<>>,
              !.usedKeys = f.usedKeys \cup {f.payload.idempotencyKey}]

\* `attempt >= 0` as the condition of the retry branch: a delay before the
\* initial attempt too
EnterLoopDelaysFirst(f, o) ==
    IF LoopCond(f.attempt)
    THEN Retry(f)
    ELSE Finally(f, Fulfilled(UNDEFINED))

\* lines 40-50: the loop is entered with attempt = 0
EnterLoop(f, o) ==
    IF LoopCond(f.attempt)
    THEN CallSubmitForm(f, o)
    ELSE Finally(f, Fulfilled(UNDEFINED))

Free(c) == pc[c] = "done"
Active == {c \in Calls : ~Free(c)}

-----------------------------------------------------------------------------
\* lines 25-28: the initial values of the useState cells
InitialState ==
    [status |-> IDLE, retryCount |-> 0, error |-> NULL, result |-> NULL]

\* the hook right after construction, and the form around it
Constructed ==
    /\ inFlightRef = FALSE
    /\ status = InitialState.status
    /\ retryCount = InitialState.retryCount
    /\ error = InitialState.error
    /\ result = InitialState.result
    /\ pc = [c \in Calls |-> "done"]
    /\ attempt = [c \in Calls |-> 0]
    /\ settled = NoPromise
    /\ invoked = 0
    /\ log = <<>>
    /\ event = [op |-> "init", call |-> 0, accepted |-> FALSE]
    /\ payload = [c \in Calls |-> NoPayload]
    /\ sent = <<>>
    /\ seen = <<>>
    /\ sleeps = 0
    /\ usedKeys = {}
    /\ email = ""
    /\ amount = ""
    /\ keys = 0
    /\ retryAttempt = 0
    /\ promise = [c \in Calls |-> NoSettlement]
    /\ verdict = NoVerdict

Init ==
    /\ maxRetries \in 0..MaxRetriesBound
    /\ Constructed

\* a throw in place of the silent return
DroppedWithError == Rejected(Value("object", {}, "in flight"))

\* line 32: `return;`, the promise of a call the guard turns away
Dropped == Fulfilled(UNDEFINED)

(* submit(p) is called; the call is tracked as c, the first free one. *)
submit(c, p) ==
    /\ Free(c)
    /\ \A d \in Calls : Free(d) => c <= d
    /\ IF isInFlight
       THEN /\ settled' = Dropped
            /\ event' = [op |-> "submit", call |-> c, accepted |-> FALSE]
            /\ UNCHANGED <<inFlightRef, status, retryCount, error, result,
                           pc, attempt, invoked, log, payload, sent, seen,
                           sleeps, usedKeys>>
       ELSE /\ \E o \in Returns \cup Throws :
                    Commit(c, EnterLoop(Accept([Frame(c) EXCEPT
                                                  !.payload = p]), o))
            /\ event' = [op |-> "submit", call |-> c, accepted |-> TRUE]
    /\ UNCHANGED maxRetries

(* The promise submitForm returned to call c settles (line 50 resumes). *)
submitFormSettles(c, s) ==
    /\ pc[c] = "awaitSubmit"
    /\ LET f == [Frame(c) EXCEPT !.log = Append(log, s)]
       IN  Commit(c, IF s.kind = "resolve"
                     THEN Resolve(f, s.value)
                     ELSE Catch(f, s.value))
    /\ event' = [op |-> "settle", call |-> c, accepted |-> FALSE]
    /\ UNCHANGED <<maxRetries, formVars>>

(* sleep(retryDelayMs) of call c is over (line 47 resumes). *)
sleepElapses(c, o) ==
    /\ pc[c] = "sleep"
    /\ Commit(c, CallSubmitForm(Frame(c), o))
    /\ event' = [op |-> "timer", call |-> c, accepted |-> FALSE]
    /\ UNCHANGED <<maxRetries, formVars>>

\* the guard test of reset() left out
resetBlockedNever == FALSE

\* line 71: the guard test of reset()
resetBlocked == inFlightRef

\* `inFlightRef.current = false` added at the top of reset()
resetReleasesGuard ==
    /\ IF resetBlocked
       THEN UNCHANGED <<status, retryCount, error, result>>
       ELSE /\ status' = IDLE
            /\ retryCount' = 0
            /\ error' = NULL
            /\ result' = NULL
    /\ inFlightRef' = FALSE
    /\ event' = [op |-> "reset", call |-> 0, accepted |-> FALSE]
    /\ UNCHANGED <<maxRetries, pc, attempt, settled, invoked,
                   log, payload, sent, seen, sleeps, usedKeys>>

\* setRetryCount(0) left out
resetKeepsCount ==
    /\ IF resetBlocked
       THEN UNCHANGED <<status, retryCount, error, result>>
       ELSE /\ status' = IDLE
            /\ error' = NULL
            /\ result' = NULL
            /\ UNCHANGED retryCount
    /\ event' = [op |-> "reset", call |-> 0, accepted |-> FALSE]
    /\ UNCHANGED <<maxRetries, inFlightRef, pc, attempt, settled, invoked,
                   log, payload, sent, seen, sleeps, usedKeys>>

(* reset() is called. *)
reset ==
    /\ IF resetBlocked
       THEN UNCHANGED <<status, retryCount, error, result>>
       ELSE /\ status' = IDLE
            /\ retryCount' = 0
            /\ error' = NULL
            /\ result' = NULL
    /\ event' = [op |-> "reset", call |-> 0, accepted |-> FALSE]
    /\ UNCHANGED <<maxRetries, inFlightRef, pc, attempt, settled, invoked,
                   log, payload, sent, seen, sleeps, usedKeys>>

(* The hook with any caller and any endpoint. *)
Next ==
    \/ \E c \in Calls, p \in Payloads :
           submit(c, p) /\ UNCHANGED <<formVars, mockVars, verdict>>
    \/ \E c \in Calls, s \in Settlements :
           submitFormSettles(c, s) /\ UNCHANGED <<mockVars, verdict>>
    \/ \E c \in Calls, o \in Returns \cup Throws :
           sleepElapses(c, o) /\ UNCHANGED <<mockVars, verdict>>
    \/ reset /\ UNCHANGED <<formVars, mockVars, verdict>>

Spec == Init /\ [][Next]_vars

(* isRetryable(err) called on its own, in any state of the hook.  The     *)
(* function has one expression and no assignment.                         *)
JSValues ==
    ErrorValues \cup {NULL,
                      Value("object", {500}, "server error"),
                      Value("number", {}, "503")}

classify(err) ==
    /\ verdict' = [err |-> err, retryable |-> isRetryable(err),
                   called |-> TRUE]
    /\ UNCHANGED <<maxRetries, hookVars, event, formVars, mockVars>>

ClassifyNext ==
    \/ Next
    \/ \E err \in JSValues : classify(err)

ClassifySpec == Init /\ [][ClassifyNext]_vars

(* The same, when every promise of submitForm settles in the end and every *)
(* sleep() is over in the end.                                             *)
LiveSpec ==
    /\ Spec
    /\ WF_vars(\E c \in Calls, s \in Settlements :
                  submitFormSettles(c, s) /\ UNCHANGED <<mockVars, verdict>>)
    /\ WF_vars(\E c \in Calls, o \in Returns \cup Throws :
                  sleepElapses(c, o) /\ UNCHANGED <<mockVars, verdict>>)

-----------------------------------------------------------------------------
(* TransactionForm: the form that drives the hook. *)
FormMaxRetries == 3

Emails == {"", "user@example.com"}
Amounts == {"", "10"}

\* Number(amount) for the strings of Amounts
Number(a) == IF a = "10" THEN 10 ELSE 0

\* lines 23-25: crypto.randomUUID(), or the timestamp-and-random fallback.
\* The key is the keys + 1st one drawn: draws are taken to be distinct.
randomUUID == keys + 1

\* the same key for every submission
SubmitPayloadFixedKey(e, a, k) ==
    [email |-> e, amount |-> Number(a), idempotencyKey |-> 0]

\* lines 27-31: the object passed to submit()
SubmitPayload(e, a, k) ==
    [email |-> e, amount |-> Number(a), idempotencyKey |-> k]

\* lines 43-62: the success panel is rendered in place of the form
isSuccess == status = SUCCESS

(* onChange of the two inputs. *)
setEmail(v) ==
    /\ ~isSuccess
    /\ email' = v
    /\ event' = [op |-> "input", call |-> 0, accepted |-> FALSE]
    /\ UNCHANGED <<maxRetries, hookVars, amount, keys>>

setAmount(v) ==
    /\ ~isSuccess
    /\ amount' = v
    /\ event' = [op |-> "input", call |-> 0, accepted |-> FALSE]
    /\ UNCHANGED <<maxRetries, hookVars, email, keys>>

\* `!email && !amount` as the condition of the early return
handleSubmitNeedsOneField ==
    /\ ~isSuccess
    /\ IF email = "" /\ amount = ""
       THEN /\ event' = [op |-> "ignored", call |-> 0, accepted |-> FALSE]
            /\ UNCHANGED <<maxRetries, hookVars, formVars>>
       ELSE /\ keys < MaxKeys
            /\ keys' = keys + 1
            /\ \E c \in Calls :
                   submit(c, SubmitPayload(email, amount, randomUUID))
            /\ UNCHANGED <<email, amount>>

(* onSubmit of the form. *)
handleSubmit ==
    /\ ~isSuccess
    /\ IF email = "" \/ amount = ""
       THEN /\ event' = [op |-> "ignored", call |-> 0, accepted |-> FALSE]
            /\ UNCHANGED <<maxRetries, hookVars, formVars>>
       ELSE /\ keys < MaxKeys
            /\ keys' = keys + 1
            /\ \E c \in Calls :
                   submit(c, SubmitPayload(email, amount, randomUUID))
            /\ UNCHANGED <<email, amount>>

\* 'Send Another' rendered in the form view too
handleResetAnyTime ==
    /\ reset
    /\ email' = ""
    /\ amount' = ""
    /\ UNCHANGED keys

(* onClick of 'Send Another'. *)
handleReset ==
    /\ isSuccess
    /\ reset
    /\ email' = ""
    /\ amount' = ""
    /\ UNCHANGED keys

FormInit ==
    /\ maxRetries = FormMaxRetries
    /\ Constructed

FormNext ==
    \/ \E v \in Emails : setEmail(v) /\ UNCHANGED <<mockVars, verdict>>
    \/ \E v \in Amounts : setAmount(v) /\ UNCHANGED <<mockVars, verdict>>
    \/ handleSubmit /\ UNCHANGED <<mockVars, verdict>>
    \/ handleReset /\ UNCHANGED <<mockVars, verdict>>
    \/ \E c \in Calls, s \in Settlements :
           submitFormSettles(c, s) /\ UNCHANGED <<mockVars, verdict>>
    \/ \E c \in Calls, o \in Returns \cup Throws :
           sleepElapses(c, o) /\ UNCHANGED <<mockVars, verdict>>

FormSpec == FormInit /\ [][FormNext]_vars

-----------------------------------------------------------------------------
(* mockApi/api.js: the endpoint the hook imports, driven by the form. *)
ErrorEmail == "error@example.com"
RetryEmail == "retry@example.com"
MockEmails == Emails \cup {ErrorEmail, RetryEmail}

\* the rejection values of lines 19-22, 32-35 and 62-65
Forced503 == Value("object", {503}, "Service Temporarily Unavailable (Forced)")
Hiccup503 == Value("object", {503}, "Service is hiccups... (Will recover)")
Random503 == Value("object", {503}, "Service temporarily unavailable")

\* lines 39-42, 48-51, 56-59: { success: true, data: { ...data, id } }
Response(data, id) ==
    [type |-> "object", status |-> {}, tag |-> "response",
     success |-> TRUE,
     data |-> [email |-> data.email, amount |-> data.amount,
               idempotencyKey |-> data.idempotencyKey, id |-> id]]

\* the counter is not put back to 0 before the success
RetryBranchKeepsCounter(data) ==
    IF retryAttempt + 1 < 3
    THEN [settle |-> [kind |-> "reject", value |-> Hiccup503],
          retryAttempt |-> retryAttempt + 1]
    ELSE [settle |-> [kind |-> "resolve",
                      value |-> Response(data, "mock-recovered")],
          retryAttempt |-> retryAttempt + 1]

\* lines 26-43: the branch of 'retry@example.com'
RetryBranch(data) ==
    IF retryAttempt + 1 < 3
    THEN [settle |-> [kind |-> "reject", value |-> Hiccup503],
          retryAttempt |-> retryAttempt + 1]
    ELSE [settle |-> [kind |-> "resolve",
                      value |-> Response(data, "mock-recovered")],
          retryAttempt |-> 0]

\* the forced failure carries status 500
ErrorBranchStatus500(data) ==
    [settle |-> [kind |-> "reject",
                 value |-> Value("object", {500}, "Internal Server Error")],
     retryAttempt |-> retryAttempt]

\* lines 17-23: the branch of 'error@example.com'
ErrorBranch(data) ==
    [settle |-> [kind |-> "reject", value |-> Forced503],
     retryAttempt |-> retryAttempt]

\* the response carries the id only
RandomBranchDropsData(data, outcome) ==
    [settle |-> IF outcome \in {0, 1}
                THEN [kind |-> "resolve",
                      value |-> Response(NoPayload, "mock")]
                ELSE [kind |-> "reject", value |-> Random503],
     retryAttempt |-> retryAttempt]

\* lines 45-65: outcome is what randomInt(0, 2) returned; the promise of
\* outcome 1 resolves like the one of outcome 0, after delay(delayMs)
RandomBranch(data, outcome) ==
    [settle |-> IF outcome \in {0, 1}
                THEN [kind |-> "resolve", value |-> Response(data, "mock")]
                ELSE [kind |-> "reject", value |-> Random503],
     retryAttempt |-> retryAttempt]

\* lines 15-66: how the promise submitForm(data) hands back settles, and
\* the counter after the call
submitForm(data, outcome) ==
    IF data.email = ErrorEmail THEN ErrorBranch(data)
    ELSE IF data.email = RetryEmail THEN RetryBranch(data)
    ELSE RandomBranch(data, outcome)

\* the step invoked submitForm for call c: the mock hands back a promise
MockInvoked(c) ==
    /\ pc'[c] = "awaitSubmit"
    /\ \E outcome \in 0..2 :
          LET out == submitForm(sent'[Len(sent')].payload, outcome)
          IN  /\ promise' = [promise EXCEPT ![c] = out.settle]
              /\ retryAttempt' = out.retryAttempt

(* onSubmit of the form, with the mock as the endpoint. *)
MockHandleSubmit ==
    /\ handleSubmit
    /\ IF event'.op = "submit" /\ event'.accepted
       THEN MockInvoked(event'.call)
       ELSE UNCHANGED mockVars

(* The promise the mock handed to call c settles. *)
MockSettles(c) ==
    /\ promise[c] # NoSettlement
    /\ submitFormSettles(c, promise[c])
    /\ promise' = [promise EXCEPT ![c] = NoSettlement]
    /\ UNCHANGED retryAttempt

(* sleep() of call c is over and the mock is invoked again. *)
MockSleepElapses(c) ==
    /\ \E o \in Returns : sleepElapses(c, o)
    /\ MockInvoked(c)

\* the form as configured, or with a smaller maxRetries
MockInit ==
    /\ maxRetries \in (0..MaxRetriesBound) \cup {FormMaxRetries}
    /\ Constructed

MockNext ==
    \/ \E v \in MockEmails : setEmail(v) /\ UNCHANGED <<mockVars, verdict>>
    \/ \E v \in Amounts : setAmount(v) /\ UNCHANGED <<mockVars, verdict>>
    \/ MockHandleSubmit /\ UNCHANGED verdict
    \/ handleReset /\ UNCHANGED <<mockVars, verdict>>
    \/ \E c \in Calls : MockSettles(c) /\ UNCHANGED verdict
    \/ \E c \in Calls : MockSleepElapses(c) /\ UNCHANGED verdict

MockSpec == MockInit /\ [][MockNext]_vars

-----------------------------------------------------------------------------
(* Helpers of the properties. *)
\* a state cell holds a value (it is neither null nor undefined)
IsSet(v) == v.type \notin {"null", "undefined"}
Busy == status \in {PENDING, RETRYING}
Failed(o) == o.kind \in {"reject", "throw"}
\* the first n invocations since the accepted submit() all failed retryably
FailedRetryably(n) ==
    \A i \in 1..n : Failed(log[i]) /\ isRetryable(log[i].value)
\* the cells, the guard and the calls' positions
Controller == <<status, retryCount, error, result, inFlightRef, pc, attempt>>
\* the step ends call c: the promise submit() returned for it settles
Completes(c) ==
    /\ Free(c)'
    /\ \/ ~Free(c)
       \/ event'.op = "submit" /\ event'.accepted /\ event'.call = c

-----------------------------------------------------------------------------
\* C1: single-flight.  At most one attempt cycle is active in every reachable
\* state, and a submit() call made while status is Pending or Retrying is not
\* accepted, invokes submitForm not once and leaves status, retryCount, error,
\* result, the guard and the running cycle as they were.
SingleFlight ==
    /\ [](Cardinality(Active) <= 1)
    /\ [][(event'.op = "submit" /\ Busy) =>
            /\ ~event'.accepted
            /\ UNCHANGED <<Controller, invoked, log>>]_vars

SingleFlightWitness ==
    /\ event.op = "submit"
    /\ ~event.accepted
    /\ status = RETRYING
    /\ \E c \in Calls : pc[c] = "sleep"

\* C2: retry bound.  submitForm is invoked at most maxRetries + 1 times in one
\* accepted submission, and retryCount never exceeds maxRetries.
RetryBound ==
    /\ invoked <= maxRetries + 1
    /\ retryCount <= maxRetries

RetryBoundWitness ==
    /\ maxRetries > 0
    /\ invoked = maxRetries + 1
    /\ retryCount = maxRetries

\* C3: eventual success.  When submitForm failed retryably k <= maxRetries
\* times and then resolved, the state the resolution leaves is Success, with
\* k + 1 invocations, result the resolved value, error unset, retryCount k and
\* the guard free; and as long as only k <= maxRetries retryable failures have
\* happened the cycle is still running, at retry k.
EventualSuccess ==
    \A k \in 0..maxRetries :
        /\ (/\ event.op = "settle"
            /\ Len(log) = k + 1
            /\ FailedRetryably(k)
            /\ log[k + 1].kind = "resolve")
           => /\ status = SUCCESS
              /\ invoked = k + 1
              /\ result = log[k + 1].value
              /\ ~IsSet(error)
              /\ retryCount = k
              /\ ~inFlightRef
        /\ (k > 0 /\ Len(log) = k /\ FailedRetryably(k))
           => /\ status = RETRYING
              /\ retryCount = k
              /\ inFlightRef

EventualSuccessWitness ==
    /\ event.op = "settle"
    /\ status = SUCCESS
    /\ maxRetries > 0
    /\ retryCount = maxRetries
    /\ IsSet(result)

\* C4: exhaustion.  When all maxRetries + 1 invocations of a cycle failed
\* retryably, the cycle is over with status Error, error the failure of the
\* last invocation, exactly maxRetries + 1 invocations and the guard free
\* (until reset() or the next submit()).
Exhaustion ==
    (/\ Len(log) = maxRetries + 1
     /\ FailedRetryably(maxRetries + 1)
     /\ event.op # "reset")
    => /\ status = ERROR
       /\ error = log[maxRetries + 1].value
       /\ invoked = maxRetries + 1
       /\ ~inFlightRef
       /\ Active = {}

ExhaustionWitness ==
    /\ status = ERROR
    /\ maxRetries > 0
    /\ Len(log) = maxRetries + 1
    /\ FailedRetryably(maxRetries + 1)
    /\ error # log[1].value

\* C5: a non-retryable first failure.  When the first invocation of a cycle
\* failed with an error that is not retryable, submitForm was invoked once,
\* the cycle is over with status Error and error that very error (until
\* reset() or the next submit()), and status was Pending, never Retrying,
\* up to the failure.
TerminalFirstFailure ==
    /\ (Len(log) >= 1 /\ Failed(log[1]) /\ ~isRetryable(log[1].value))
       => /\ invoked = 1
          /\ Len(log) = 1
          /\ retryCount = 0
          /\ status # RETRYING
          /\ ~inFlightRef
          /\ event.op # "reset" => (status = ERROR /\ error = log[1].value)
    /\ (inFlightRef /\ log = <<>>) => (status = PENDING /\ invoked = 1)

TerminalFirstFailureWitness ==
    /\ maxRetries > 0
    /\ event.op = "settle"
    /\ status = ERROR
    /\ invoked = 1
    /\ error = Value("object", {400}, "bad request")

\* C6: status is Pending or Retrying exactly when the guard is held, which is
\* exactly when a submit() call is suspended in its attempt loop.
GuardIffBusy ==
    /\ Busy <=> inFlightRef
    /\ inFlightRef <=> Active # {}

GuardIffBusyWitness ==
    /\ inFlightRef
    /\ status = RETRYING
    /\ settled.state = "rejected"

\* C7: the guard is released on every exit.  A step that settles the promise
\* of an accepted submit() (resolved, rejected after a terminal failure or
\* after the last retry, or rejected by a synchronous throw) leaves the guard
\* free; and a submit() call made when no call is suspended is accepted and
\* starts a cycle.
GuardReleased ==
    [][/\ \A c \in Calls :
            (/\ Free(c)'
             /\ \/ ~Free(c)
                \/ event'.op = "submit" /\ event'.accepted /\ event'.call = c)
            => ~inFlightRef'
       /\ (Active = {} /\ event'.op = "submit")
            => /\ event'.accepted
               /\ invoked' = 1
               /\ \/ Active' # {} /\ inFlightRef' /\ status' = PENDING
                  \/ Active' # {} /\ inFlightRef' /\ status' = RETRYING
                  \/ settled'.state = "rejected" /\ status' = ERROR]_vars

GuardReleasedWitness ==
    /\ event.op = "submit"
    /\ event.accepted
    /\ inFlightRef
    /\ settled.state = "rejected"

\* C8: reset() while status is Pending or Retrying changes nothing: the
\* cells, the guard, the suspended call and its promise stay as they were.
ResetInFlight ==
    [][(event'.op = "reset" /\ Busy) =>
            UNCHANGED <<Controller, settled, invoked, log>>]_vars

ResetInFlightWitness ==
    /\ event.op = "reset"
    /\ status = RETRYING
    /\ \E c \in Calls : pc[c] = "sleep"

\* C9: reset() while status is Idle, Success or Error leaves the cells as
\* they were after construction, and a reset() that follows a reset()
\* changes nothing.
ResetNotInFlight ==
    [][/\ (event'.op = "reset" /\ ~Busy) =>
            [status |-> status', retryCount |-> retryCount',
             error |-> error', result |-> result'] = InitialState
       /\ (event'.op = "reset" /\ event.op = "reset") =>
            UNCHANGED <<Controller, settled, invoked, log>>]_vars

ResetNotInFlightWitness ==
    /\ event.op = "reset"
    /\ status = IDLE
    /\ Len(log) > 1
    /\ settled.state = "rejected"

\* C10: error and result are never both set; error is set only when status
\* is Error and result only when status is Success.
ErrorXorResult ==
    /\ ~(IsSet(error) /\ IsSet(result))
    /\ IsSet(error) => status = ERROR
    /\ IsSet(result) => status = SUCCESS

ErrorXorResultWitness ==
    /\ status = PENDING
    /\ event.op = "submit"
    /\ settled.state = "rejected"
    /\ IsSet(settled.value)

\* C11: idempotency token.  Every submitForm invocation of a cycle receives
\* the payload the accepted submit() call was given, key included, and the
\* key of an accepted submit() is the key of no submit() accepted before it.
IdempotencyToken ==
    /\ [](\A i \in 1..Len(sent) :
            /\ sent[i].payload = sent[1].payload
            /\ \A c \in Active : sent[i].payload = payload[c])
    /\ [][(event'.op = "submit" /\ event'.accepted) =>
            /\ sent'[1].payload.idempotencyKey \notin usedKeys
            /\ sent'[1].payload.idempotencyKey \in usedKeys'
            /\ sent'[1].payload.email = email
            /\ sent'[1].payload.amount = Number(amount)]_vars

IdempotencyTokenWitness ==
    /\ Len(sent) = FormMaxRetries + 1
    /\ Cardinality(usedKeys) >= 2
    /\ sent[Len(sent)].payload.idempotencyKey = keys

\* C12: failure propagation.  In the step that settles the promise of an
\* accepted submit(): if it rejects, status is Error and error is the value
\* it rejects with; if it fulfils, status is Success and result is the value
\* it fulfils with; and that value is what the last invocation ended with.
FailurePropagation ==
    [][\A c \in Calls : Completes(c) =>
        /\ settled'.state \in {"fulfilled", "rejected"}
        /\ settled'.value = log'[Len(log')].value
        /\ settled'.state = "rejected" =>
              (status' = ERROR /\ error' = settled'.value /\ ~IsSet(result'))
        /\ settled'.state = "fulfilled" =>
              (status' = SUCCESS /\ result' = settled'.value
                 /\ ~IsSet(error'))]_vars

FailurePropagationWitness ==
    /\ event.op = "settle"
    /\ settled.state = "rejected"
    /\ status = ERROR
    /\ error = settled.value
    /\ IsSet(error)
    /\ retryCount > 0

\* C13: guard rejection is silent.  A submit() call made while the guard is
\* held is not accepted; its promise is fulfilled with undefined in that very
\* step, while the cycle in flight is still suspended where it was.
SilentRejection ==
    [][(event'.op = "submit" /\ inFlightRef) =>
        /\ ~event'.accepted
        /\ settled' = Fulfilled(UNDEFINED)
        /\ pc'[event'.call] = "done"
        /\ Active' = Active /\ Active # {}
        /\ UNCHANGED <<pc, attempt, inFlightRef>>]_vars

SilentRejectionWitness ==
    /\ event.op = "submit"
    /\ ~event.accepted
    /\ settled = Fulfilled(UNDEFINED)
    /\ status = PENDING
    /\ \E c \in Calls : pc[c] = "awaitSubmit"

\* the value the third invocation of the example scenario resolves with
ScenarioX == Value("object", {}, "r1")

\* C14: the example scenario.  With the form's maxRetries = 3, when the first
\* two invocations were rejected with status 503 and the third resolved with
\* X, what could be observed since the submit() is exactly Pending,
\* Retrying with retryCount 1, Retrying with retryCount 2, Success; result is
\* X, submitForm was invoked 3 times and sleep() was called twice.  And an
\* accepted submit() takes Idle to Pending.
ExampleScenario ==
    /\ []((/\ event.op = "settle"
           /\ Len(log) = 3
           /\ \A i \in 1..2 : log[i].kind = "reject" /\ log[i].value.status = {503}
           /\ log[3] = [kind |-> "resolve", value |-> ScenarioX])
          => /\ maxRetries = 3
             /\ seen = <<[status |-> PENDING, retryCount |-> 0],
                         [status |-> RETRYING, retryCount |-> 1],
                         [status |-> RETRYING, retryCount |-> 2],
                         [status |-> SUCCESS, retryCount |-> 2]>>
             /\ status = SUCCESS
             /\ result = ScenarioX
             /\ invoked = 3
             /\ sleeps = 2)
    /\ [][(status = IDLE /\ event'.op = "submit" /\ event'.accepted
             /\ log' = <<>>)
          => (status' = PENDING /\ retryCount' = 0 /\ invoked' = 1
                /\ sleeps' = 0)]_vars

ExampleScenarioWitness ==
    /\ event.op = "settle"
    /\ Len(log) = 3
    /\ \A i \in 1..2 : log[i].kind = "reject" /\ log[i].value.status = {503}
    /\ log[3] = [kind |-> "resolve", value |-> ScenarioX]
    /\ status = SUCCESS
    /\ usedKeys = {1}

\* C15: termination.  When every promise of submitForm settles in the end
\* and every sleep() is over in the end, a state with status Pending or
\* Retrying is followed by a state with status Success or Error and the guard
\* free.
Termination ==
    Busy ~> (status \in {SUCCESS, ERROR} /\ ~inFlightRef /\ Active = {})

TerminationWitness ==
    /\ event.op = "settle"
    /\ status = ERROR
    /\ ~inFlightRef
    /\ maxRetries > 0
    /\ sleeps = maxRetries
    /\ invoked = maxRetries + 1

\* C16: acceptance.  A submit() call made with the guard free is accepted
\* whether status is Idle, Success or Error, and the first submitForm
\* invocation is made with the guard held, error and result null, retryCount
\* 0 and status Pending; when that invocation returns its promise, this is
\* also the state the step leaves.
Acceptance ==
    [][(event'.op = "submit" /\ ~inFlightRef) =>
        /\ status \in {IDLE, SUCCESS, ERROR}
        /\ event'.accepted
        /\ Len(sent') = 1
        /\ sent'[1].inFlight
        /\ sent'[1].error = NULL
        /\ sent'[1].result = NULL
        /\ sent'[1].retryCount = 0
        /\ sent'[1].status = PENDING
        /\ log' = <<>> =>
              /\ inFlightRef'
              /\ error' = NULL
              /\ result' = NULL
              /\ retryCount' = 0
              /\ status' = PENDING]_vars

AcceptanceWitness ==
    /\ event.op = "submit"
    /\ event.accepted
    /\ status = PENDING
    /\ result = NULL
    /\ settled.state = "fulfilled"
    /\ IsSet(settled.value)

(* Helpers of the ordering properties, over what could be observed.        *)
Terminal(o) == o.status \in {SUCCESS, ERROR}
\* the first submitForm invocation of the cycle threw
FirstCallThrew == log # <<>> /\ log[1].kind = "throw"

\* C17: in one cycle the observations are Pending with retryCount 0 first,
\* then Retrying with retryCount 1, 2, ... in order (one more than before,
\* never Pending again), then exactly one of Success and Error with
\* retryCount as before; the terminal observation is the last one and is
\* there exactly when no call is suspended; until reset() the cells hold the
\* last observation.
OrderedCycle ==
    /\ seen # <<>> => seen[1] = [status |-> PENDING, retryCount |-> 0]
    /\ \A i \in 2..Len(seen) :
        /\ ~Terminal(seen[i - 1])
        /\ \/ /\ seen[i].status = RETRYING
              /\ seen[i].retryCount = seen[i - 1].retryCount + 1
           \/ /\ Terminal(seen[i])
              /\ seen[i].retryCount = seen[i - 1].retryCount
    /\ seen # <<>> => (Terminal(seen[Len(seen)]) <=> Active = {})
    /\ (seen # <<>> /\ status # IDLE) =>
          seen[Len(seen)] = [status |-> status, retryCount |-> retryCount]

OrderedCycleWitness ==
    /\ maxRetries > 1
    /\ Len(seen) = maxRetries + 2
    /\ seen[Len(seen)].status = SUCCESS
    /\ FirstCallThrew

(* Helpers of the transition property.                                     *)
\* the observations a step adds, in order
NewlySeen ==
    IF event'.op = "submit" /\ event'.accepted
    THEN seen'
    ELSE SubSeq(seen', Len(seen) + 1, Len(seen'))
\* the values status goes through in a step, from the one before it to the
\* one after it
StatusPath ==
    <<status>> \o [i \in 1..Len(NewlySeen) |-> NewlySeen[i].status]
               \o <<status'>>
\* the changes of status the claim lists, op being the operation of the step
Allowed(a, b, op) ==
    \/ a = b
    \/ a = IDLE /\ b = PENDING /\ op = "submit"
    \/ a \in {PENDING, RETRYING} /\ b \in {RETRYING, SUCCESS, ERROR}
                                /\ op \in {"submit", "settle", "timer"}
    \/ a \in {SUCCESS, ERROR} /\ b = IDLE /\ op = "reset"
    \/ a \in {SUCCESS, ERROR} /\ b = PENDING /\ op = "submit"

\* C18: every change of status is Idle to Pending by submit(), Pending or
\* Retrying to Retrying, Success or Error, or Success or Error to Idle by
\* reset() or to Pending by submit(); a submit() or reset() called while
\* status is Pending or Retrying changes neither status nor the position of
\* the cycle in flight.
Transitions ==
    [][/\ \A i \in 1..(Len(StatusPath) - 1) :
            Allowed(StatusPath[i], StatusPath[i + 1], event'.op)
       /\ (status \in {PENDING, RETRYING} /\ event'.op \in {"submit", "reset"})
            => /\ status' = status
               /\ pc' = pc
               /\ inFlightRef' = inFlightRef]_vars

TransitionsWitness ==
    /\ event.op = "reset"
    /\ status = IDLE
    /\ Len(seen) >= 3
    /\ seen[2].status = RETRYING
    /\ seen[Len(seen)].status = SUCCESS
    /\ usedKeys # {}

\* C19: when the first j invocations of a cycle failed retryably, j being
\* less than maxRetries, and invocation j+1 failed with a non-retryable
\* error, the cycle is over: submitForm was invoked j+1 times, j retry delays
\* were started, no call is suspended, the guard is free and, until reset(),
\* status is Error, error is that failure, retryCount is j and the promise of
\* submit() is rejected with it.
NonRetryableEnds ==
    \A j \in 0..(maxRetries - 1) :
        (/\ Len(log) > j
         /\ FailedRetryably(j)
         /\ Failed(log[j + 1])
         /\ ~isRetryable(log[j + 1].value))
        => /\ Len(log) = j + 1
           /\ invoked = j + 1
           /\ sleeps = j
           /\ Active = {}
           /\ ~inFlightRef
           /\ event.op # "reset" =>
                 /\ status = ERROR
                 /\ error = log[j + 1].value
                 /\ retryCount = j
                 /\ settled = Rejected(log[j + 1].value)

NonRetryableEndsWitness ==
    /\ maxRetries = 2
    /\ Len(log) = 2
    /\ FailedRetryably(1)
    /\ Failed(log[2])
    /\ ~isRetryable(log[2].value)
    /\ status = ERROR
    /\ invoked = 2

\* the outcomes of submitForm a step adds to the log (none or one)
NewOutcomes ==
    IF event'.op = "submit" /\ event'.accepted
    THEN log'
    ELSE SubSeq(log', Len(log) + 1, Len(log'))

\* C20: a step in which an invocation fails retryably at an attempt less
\* than maxRetries sets no error and no result, leaves the promise of
\* submit() pending and the guard set, and schedules the next attempt:
\* status is Retrying, retryCount is the number of failures so far, the call
\* sleeps and submitForm is not invoked again in that step.
RetryableNotSurfaced ==
    [][(/\ NewOutcomes # <<>>
        /\ Failed(NewOutcomes[1])
        /\ isRetryable(NewOutcomes[1].value)
        /\ Len(log') <= maxRetries)
       => /\ ~IsSet(error')
          /\ ~IsSet(result')
          /\ status' = RETRYING
          /\ settled' = settled
          /\ inFlightRef'
          /\ pc'[event'.call] = "sleep"
          /\ retryCount' = Len(log')
          /\ sleeps' = Len(log')
          /\ invoked' = Len(log')]_vars

RetryableNotSurfacedWitness ==
    /\ event.op \in {"settle", "timer"}
    /\ status = RETRYING
    /\ retryCount = 2
    /\ Len(log) = 2
    /\ FailedRetryably(2)
    /\ ~IsSet(error)
    /\ inFlightRef

\* C21: isRetryable(err) returns a truthy value exactly when err is an
\* object other than null whose status is 503, whatever the state of the
\* hook it is called in, and the call changes nothing of the hook.
Classification ==
    [][verdict' # verdict
       => /\ verdict'.retryable <=>
                (verdict'.err.type = "object" /\ verdict'.err.status = {503})
          /\ UNCHANGED <<maxRetries, hookVars>>]_vars

ClassificationWitness ==
    /\ verdict.called
    /\ verdict.retryable
    /\ verdict.err \in Unavailable
    /\ status = RETRYING
    /\ retryCount = maxRetries

\* where the delays of the cycle stand: invocation i was made after i - 1
\* sleep() calls, the first with status Pending and retryCount 0, every
\* later one with status Retrying and retryCount i - 1; a sleep() call is
\* followed by an invocation unless the call is still sleeping
DelaysPlaced ==
    /\ Len(sent) = invoked
    /\ \A i \in 1..Len(sent) :
          /\ sent[i].sleeps = i - 1
          /\ sent[i].retryCount = i - 1
          /\ sent[i].status = IF i = 1 THEN PENDING ELSE RETRYING
    /\ sleeps = IF \E c \in Calls : pc[c] = "sleep"
                THEN invoked
                ELSE IF invoked = 0 THEN 0 ELSE invoked - 1

\* C22: the first invocation of a cycle is made in the step of the accepted
\* submit(), before any sleep(); every later one is made in the step in
\* which a sleep() ends, after status was set to Retrying and retryCount to
\* the attempt, so m invocations have m - 1 delays between them; submit()
\* and reset() called while a call sleeps leave it sleeping and invoke
\* nothing.
DelayPlacement ==
    [][/\ DelaysPlaced'
       /\ invoked' # invoked =>
             \/ /\ event'.op = "submit" /\ event'.accepted
                /\ invoked' = 1 /\ sent'[1].sleeps = 0
             \/ /\ event'.op = "timer" /\ pc[event'.call] = "sleep"
                /\ invoked' = invoked + 1
                /\ status = RETRYING /\ retryCount = invoked
       /\ ((\E c \in Calls : pc[c] = "sleep")
             /\ event'.op \in {"submit", "reset"})
            => /\ pc' = pc
               /\ invoked' = invoked
               /\ sleeps' = sleeps
               /\ sent' = sent]_vars

DelayPlacementWitness ==
    /\ invoked = 3
    /\ sleeps = 2
    /\ status = SUCCESS
    /\ sent[3].status = RETRYING
    /\ sent[3].retryCount = 2

\* C23: whenever status is Error, error is set, and whenever status is
\* Success, result is set, whatever submitForm failed or resolved with.
TerminalValueSet ==
    /\ status = ERROR => IsSet(error)
    /\ status = SUCCESS => IsSet(result)

\* C24: reset(), in any state, invokes submitForm not once, starts no
\* sleep(), and leaves the guard and every suspended call as they are.
ResetFrame ==
    [][event'.op = "reset"
       => /\ invoked' = invoked
          /\ sent' = sent
          /\ sleeps' = sleeps
          /\ inFlightRef' = inFlightRef
          /\ pc' = pc
          /\ attempt' = attempt
          /\ settled' = settled]_vars

ResetFrameWitness ==
    /\ event.op = "reset"
    /\ inFlightRef
    /\ status = RETRYING
    /\ invoked = 2
    /\ \E c \in Calls : pc[c] = "awaitSubmit"

(* Helpers of the properties of the mock endpoint.                         *)
\* the email of the cycle that was accepted last
CycleEmail == sent[1].payload.email
\* a cycle was accepted and no call is suspended: the cycle is over
CycleOver == sent # <<>> /\ Active = {}

\* C25: with the form's maxRetries, the counter retryAttempt is 0 whenever
\* no cycle is in flight, and in every cycle for 'retry@example.com' the
\* first two invocations are rejected with status 503, the third resolves,
\* the counter follows the invocations and is 0 again after the third, and
\* the cycle ends in Success after exactly 3 invocations (status stays
\* Success until 'Send Another' puts it back to Idle).
RetryScenario ==
    maxRetries = FormMaxRetries =>
        /\ Active = {} => retryAttempt = 0
        /\ (sent # <<>> /\ CycleEmail = RetryEmail) =>
              /\ invoked <= 3
              /\ retryAttempt = invoked % 3
              /\ \A i \in 1..Len(log) :
                    IF i < 3
                    THEN log[i].kind = "reject" /\ log[i].value.status = {503}
                    ELSE log[i].kind = "resolve"
              /\ CycleOver =>
                    /\ invoked = 3
                    /\ Len(log) = 3
                    /\ status \in {SUCCESS, IDLE}
                    /\ event.op = "settle" => status = SUCCESS
                    /\ status = SUCCESS =>
                          retryCount = 2 /\ result = log[3].value

RetryScenarioWitness ==
    /\ maxRetries = FormMaxRetries
    /\ CycleOver
    /\ CycleEmail = RetryEmail
    /\ status = SUCCESS
    /\ usedKeys = {1, 2, 3}
    /\ sent[1].payload.idempotencyKey = 3

\* what is observed of a cycle that fails at every attempt, with the form's
\* maxRetries
PersistentFailureSeen ==
    <<[status |-> PENDING, retryCount |-> 0],
      [status |-> RETRYING, retryCount |-> 1],
      [status |-> RETRYING, retryCount |-> 2],
      [status |-> RETRYING, retryCount |-> 3],
      [status |-> ERROR, retryCount |-> 3]>>

\* C26: with the form's maxRetries, a cycle for 'error@example.com' shows
\* Pending, Retrying with retryCount 1, 2 and 3, then Error, in that order;
\* when it is over submitForm was invoked exactly 4 times, status is Error
\* and error is the 503 failure of the fourth invocation.
PersistentFailure ==
    (maxRetries = FormMaxRetries /\ sent # <<>> /\ CycleEmail = ErrorEmail) =>
        /\ Len(seen) <= Len(PersistentFailureSeen)
        /\ \A i \in 1..Len(seen) : seen[i] = PersistentFailureSeen[i]
        /\ invoked <= 4
        /\ CycleOver =>
              /\ seen = PersistentFailureSeen
              /\ invoked = 4
              /\ Len(log) = 4
              /\ log[4].kind = "reject"
              /\ log[4].value.status = {503}
              /\ status = ERROR
              /\ error = log[4].value

PersistentFailureWitness ==
    /\ maxRetries = FormMaxRetries
    /\ CycleOver
    /\ CycleEmail = ErrorEmail
    /\ status = ERROR
    /\ error = Forced503
    /\ invoked = 4

\* C27: against the mock every failure is a rejection with status 503, and
\* in every state with status Error retryCount is maxRetries and submitForm
\* was invoked maxRetries + 1 times in the cycle.
MockErrorsExhaust ==
    /\ \A i \in 1..Len(log) :
          Failed(log[i]) => log[i].kind = "reject" /\ isRetryable(log[i].value)
    /\ status = ERROR =>
          /\ retryCount = maxRetries
          /\ invoked = maxRetries + 1
          /\ Len(log) = maxRetries + 1
          /\ isRetryable(error)

MockErrorsExhaustWitness ==
    /\ status = ERROR
    /\ maxRetries = 2
    /\ CycleEmail \notin {ErrorEmail, RetryEmail}
    /\ invoked = 3
    /\ error = Random503

\* C28: in every state with status Success or Error the number of
\* submitForm invocations of the cycle is retryCount + 1, and from such a
\* state retryCount changes only by an accepted submit() or by a reset()
\* that takes effect.
InvocationsMatchCount ==
    [][/\ status' \in {SUCCESS, ERROR} => invoked' = retryCount' + 1
       /\ (status \in {SUCCESS, ERROR} /\ retryCount' # retryCount)
            => \/ event'.op = "submit" /\ event'.accepted
               \/ event'.op = "reset" /\ ~inFlightRef /\ status' = IDLE]_vars

InvocationsMatchCountWitness ==
    /\ status = ERROR
    /\ retryCount = 2
    /\ invoked = 3
    /\ event.op = "settle"
    /\ ~isRetryable(error)

\* C29: with maxRetries = 0 status is never Retrying, no sleep() is
\* started, retryCount stays 0, an accepted submit() invokes submitForm once
\* and the cycle has no second invocation; it ends in Success with the
\* response if the invocation resolves and in Error with the failure if it
\* fails, a failure with status 503 included.
NoRetries ==
    maxRetries = 0 =>
        /\ status # RETRYING
        /\ retryCount = 0
        /\ sleeps = 0
        /\ \A c \in Calls : pc[c] # "sleep"
        /\ (event.op = "submit" /\ event.accepted) => invoked = 1
        /\ invoked <= 1
        /\ (sent # <<>> /\ Active = {}) =>
              /\ Len(log) = 1
              /\ event.op # "reset" =>
                    IF log[1].kind = "resolve"
                    THEN status = SUCCESS /\ result = log[1].value
                    ELSE status = ERROR /\ error = log[1].value

NoRetriesWitness ==
    /\ maxRetries = 0
    /\ status = ERROR
    /\ isRetryable(error)
    /\ invoked = 1
    /\ log[1].kind = "reject"

\* the calls whose promise from the mock has not settled yet
Outstanding == {c \in Calls : promise[c] # NoSettlement}

\* C30: every invocation of the mock settles once: a call waits for the
\* mock exactly while its promise is outstanding, and the outcomes logged
\* plus the promises outstanding are the invocations made.  Every response
\* has success = true and a data object with the email, amount and
\* idempotencyKey of the payload of that invocation and an id; with status
\* Success, result is the last response and carries the idempotencyKey
\* submitted in the cycle.
MockResponses ==
    /\ \A c \in Calls : pc[c] = "awaitSubmit" <=> c \in Outstanding
    /\ Len(log) + Cardinality(Outstanding) = invoked
    /\ \A i \in 1..Len(log) :
          log[i].kind = "resolve" =>
              /\ log[i].value.success = TRUE
              /\ log[i].value.data =
                    [email |-> sent[i].payload.email,
                     amount |-> sent[i].payload.amount,
                     idempotencyKey |-> sent[i].payload.idempotencyKey,
                     id |-> log[i].value.data.id]
              /\ log[i].value.data.id # ""
    /\ status = SUCCESS =>
          /\ result = log[Len(log)].value
          /\ result.data.idempotencyKey = sent[1].payload.idempotencyKey
          /\ result.data.idempotencyKey \in usedKeys

MockResponsesWitness ==
    /\ status = SUCCESS
    /\ result.success
    /\ result.data.idempotencyKey = 2
    /\ result.data.email = "user@example.com"
    /\ invoked = 2

\* C31: a handleSubmit that calls submit() has a non-empty email and a
\* non-empty amount, draws one idempotency key and passes the two fields and
\* that key; a handleSubmit with an empty field draws no key, calls nothing
\* and leaves the hook as it was.
SubmitNeedsBothFields ==
    [][/\ event'.op = "submit" =>
             /\ email # "" /\ amount # ""
             /\ keys' = keys + 1
             /\ event'.accepted =>
                   sent'[1].payload = [email |-> email,
                                       amount |-> Number(amount),
                                       idempotencyKey |-> keys']
       /\ event'.op = "ignored" =>
             /\ email = "" \/ amount = ""
             /\ keys' = keys
             /\ UNCHANGED <<maxRetries, hookVars>>
       /\ (email = "" \/ amount = "") =>
             /\ keys' = keys
             /\ usedKeys' = usedKeys
             /\ event'.op # "submit"]_vars

SubmitNeedsBothFieldsWitness ==
    /\ event.op = "ignored"
    /\ email # ""
    /\ amount = ""
    /\ status = ERROR
    /\ keys = 1

\* C32: reset() is called through the form only with status Success, when
\* the guard is free and no call is suspended, and the call puts status back
\* to Idle with retryCount 0 and error and result cleared.
FormReset ==
    [][event'.op = "reset" =>
          /\ status = SUCCESS
          /\ ~inFlightRef
          /\ Active = {}
          /\ status' = IDLE
          /\ retryCount' = 0
          /\ error' = NULL
          /\ result' = NULL]_vars

FormResetWitness ==
    /\ event.op = "reset"
    /\ status = IDLE
    /\ email = ""
    /\ seen # <<>>
    /\ seen[Len(seen)].status = SUCCESS
    /\ Len(seen) > 2

====
